---------------------------- MODULE Spec2Model ----------------------------
(***************************************************************************)
(* A model of the PDF gridline generator (src/app.py).                     *)
(*                                                                         *)
(*   - GridlineGenerator.add_gridlines: the two drawing loops, stepped one *)
(*     loop iteration at a time, over a pixel model of PIL images held in  *)
(*     a heap of image objects (so that copy and alias differ).            *)
(*   - PDFGeneratorWithGrid.create_pdf_with_grid: the page packing, in     *)
(*     IEEE-754 double arithmetic.                                         *)
(*   - the Streamlit session: upload, page selection, generate_pdf.        *)
(***************************************************************************)
EXTENDS Integers, Sequences, FiniteSets, TLC

VARIABLES
    heap,           \* image objects: reference -> image value
    self,           \* the GridlineGenerator's fields
    pc,             \* position of the running code
    image,          \* add_gridlines: reference of the argument image
    img_with_grid,  \* add_gridlines: reference of the image drawn on (0: none)
    width,          \* add_gridlines: width, height = image.size
    height,
    x,              \* add_gridlines: loop variables
    y,
    ops,            \* the calls made on the ImageDraw object, in order
    images_with_grid, \* generate_pdf / create_pdf_with_grid: the list of images
    c,              \* create_pdf_with_grid: the reportlab canvas
    img_pos,        \* create_pdf_with_grid: position of `for img in ...`
    pdf_buffer,     \* create_pdf_with_grid: the saved PDF's pages
    session_state,  \* st.session_state
    pdf_upload,     \* the file held by the file_uploader widget (0: none)
    grid_settings,  \* the dict returned by render_grid_settings
    generate_all,   \* generate_pdf: its argument
    idx,            \* generate_pdf: position of `for idx, img in enumerate(images)`
    progress,       \* the values shown by the st.progress bar, in order
    run_error       \* the exception that ended the last script run, if any

callVars == <<self, image, img_with_grid, width, height, x, y, ops>>
pdfVars == <<images_with_grid, c, img_pos, pdf_buffer>>
appVars == <<session_state, pdf_upload, grid_settings, generate_all, idx, progress, run_error>>
vars == <<heap, pc, callVars, pdfVars, appVars>>

---------------------------------------------------------------------------
(* Bounds of the model.                                                    *)

MaxDim == 3
BigW == 24
BigH == 16
MaxSpacing == 3
BigSpacing == 10
MaxSpin == 3

---------------------------------------------------------------------------
(* Config (src/app.py:34-54).                                              *)

DEFAULT_H_SPACING == 50
DEFAULT_V_SPACING == 50
DEFAULT_LINE_WIDTH == 1
DEFAULT_GRID_COLOR == <<200, 200, 200>>
DEFAULT_LABEL_COLOR == <<100, 100, 100>>
LABEL_FONT_SIZE == 8
LABEL_OFFSET == 2
BOTTOM_LABEL_MARGIN == 15
RIGHT_LABEL_MARGIN == 30

---------------------------------------------------------------------------
(* Images.  An image value is its size, the pattern of the page it was     *)
(* rendered from, and the pixels drawn over it since.                      *)

NoPixels == [p \in {} |-> <<0, 0, 0>>]

BasePixel(base, i, j) ==
    LET g == ((i + base * j + base) % 3) * 100 IN <<g, g, g>>

NewImage(w, h, base) == [size |-> <<w, h>>, base |-> base, drawn |-> NoPixels]

Coords(img) == (0 .. img.size[1] - 1) \X (0 .. img.size[2] - 1)

Pixel(img, i, j) ==
    IF <<i, j>> \in DOMAIN img.drawn THEN img.drawn[<<i, j>>]
    ELSE BasePixel(img.base, i, j)

SamePixels(a, b) ==
    /\ a.size = b.size
    /\ \A p \in Coords(a) : Pixel(a, p[1], p[2]) = Pixel(b, p[1], p[2])

\* Opaque overwrite of the pixels of `area` that lie inside the image.
Paint(img, area, fill) ==
    LET inside == area \cap Coords(img)
    IN  [img EXCEPT !.drawn =
            [p \in (DOMAIN img.drawn) \cup inside |->
                IF p \in inside THEN fill ELSE img.drawn[p]]]

FreshRef(h) == CHOOSE n \in 1 .. (Cardinality(DOMAIN h) + 1) : n \notin DOMAIN h

\* Image.copy(): a new image object with the same size and pixels.
ImageCopyAlias(h, r) == [heap |-> h, ref |-> r]

ImageCopy(h, r) ==
    LET n == FreshRef(h)
    IN  [heap |-> [k \in (DOMAIN h) \cup {n} |-> IF k = n THEN h[r] ELSE h[k]],
         ref  |-> n]

---------------------------------------------------------------------------
(* ImageDraw.  A draw context is the heap and the log of draw calls.       *)

Min(a, b) == IF a <= b THEN a ELSE b
Max(a, b) == IF a >= b THEN a ELSE b

\* Pixels of draw.line([p0, p1], width=w) for the axis-parallel lines the
\* generator draws: a one-pixel line for w <= 1, else the polygon that
\* extends (w-1) \div 2 to one side and w \div 2 to the other.
LineAreaWide(p0, p1, w) ==
    LET lo == IF w <= 1 THEN 0 ELSE (w - 1) \div 2
        hi == IF w <= 1 THEN 1 ELSE (w \div 2) + 1
    IN  IF p0 = p1 THEN {p0}
        ELSE IF p0[1] = p1[1]
        THEN ((p0[1] - lo) .. (p0[1] + hi)) \X (Min(p0[2], p1[2]) .. Max(p0[2], p1[2]))
        ELSE (Min(p0[1], p1[1]) .. Max(p0[1], p1[1])) \X ((p0[2] - lo) .. (p0[2] + hi))

LineArea(p0, p1, w) ==
    LET lo == IF w <= 1 THEN 0 ELSE (w - 1) \div 2
        hi == IF w <= 1 THEN 0 ELSE w \div 2
    IN  IF p0 = p1 THEN {p0}
        ELSE IF p0[1] = p1[1]
        THEN ((p0[1] - lo) .. (p0[1] + hi)) \X (Min(p0[2], p1[2]) .. Max(p0[2], p1[2]))
        ELSE (Min(p0[1], p1[1]) .. Max(p0[1], p1[1])) \X ((p0[2] - lo) .. (p0[2] + hi))

\* The glyph cell of the label font (ImageFont at LABEL_FONT_SIZE).
GlyphH == LABEL_FONT_SIZE
GlyphW == LABEL_FONT_SIZE \div 2

\* Pixels of draw.text(pos, text): the text's box, anchored at its top left.
TextArea(pos, text) ==
    (pos[1] .. (pos[1] + GlyphW * Len(text) - 1)) \X (pos[2] .. (pos[2] + GlyphH - 1))

DrawLine(d, im, p0, p1, fill, w) ==
    [heap |-> [d.heap EXCEPT ![im] = Paint(@, LineArea(p0, p1, w), fill)],
     ops  |-> Append(d.ops, [op |-> "line", xy |-> <<p0, p1>>, fill |-> fill,
                             width |-> w, text |-> <<>>])]

DrawText(d, im, pos, text, fill) ==
    [heap |-> [d.heap EXCEPT ![im] = Paint(@, TextArea(pos, text), fill)],
     ops  |-> Append(d.ops, [op |-> "text", xy |-> <<pos>>, fill |-> fill,
                             width |-> 0, text |-> text])]

\* str(n) of a non-negative integer: its decimal digits.
DigitChars == <<"0", "1", "2", "3", "4", "5", "6", "7", "8", "9">>

RECURSIVE Str(_)
Str(n) == IF n < 10 THEN <<DigitChars[n + 1]>>
          ELSE Str(n \div 10) \o <<DigitChars[(n % 10) + 1]>>

---------------------------------------------------------------------------
(* GridlineGenerator (src/app.py:121-218).                                 *)

\* __init__: stores its arguments, unchecked.
GridlineGenerator(h_spacing, v_spacing, grid_color, label_color, line_width, show_labels) ==
    [h_spacing |-> h_spacing, v_spacing |-> v_spacing, grid_color |-> grid_color,
     label_color |-> label_color, line_width |-> line_width, show_labels |-> show_labels]

\* `while x <= width` / `while y <= height`
LoopCondStrict(off, dim) == off < dim

LoopCond(off, dim) == off <= dim

\* `if self.show_labels and x > 0`
LabelCondNoFlag(g, off) == off > 0

LabelCondNoZeroTest(g, off) == g.show_labels

LabelCond(g, off) == g.show_labels /\ off > 0

\* `label = str(x)`
LabelTextOfPosition(off) == Str(off + LABEL_OFFSET)

LabelText(off) == Str(off)

\* One iteration of the vertical-line loop, lines 173-190.
VBody(d, im, vx, h, g) ==
    LET d1 == DrawLine(d, im, <<vx, 0>>, <<vx, h>>, g.grid_color, g.line_width)
        label == LabelText(vx)
    IN  IF LabelCond(g, vx)
        THEN DrawText(DrawText(d1, im, <<vx + LABEL_OFFSET, LABEL_OFFSET>>,
                               label, g.label_color),
                      im, <<vx + LABEL_OFFSET, h - BOTTOM_LABEL_MARGIN>>,
                      label, g.label_color)
        ELSE d1

\* One iteration of the horizontal-line loop, lines 197-214.
HBody(d, im, hy, w, g) ==
    LET d1 == DrawLine(d, im, <<0, hy>>, <<w, hy>>, g.grid_color, g.line_width)
        label == LabelText(hy)
    IN  IF LabelCond(g, hy)
        THEN DrawText(DrawText(d1, im, <<LABEL_OFFSET, hy + LABEL_OFFSET>>,
                               label, g.label_color),
                      im, <<w - RIGHT_LABEL_MARGIN, hy + LABEL_OFFSET>>,
                      label, g.label_color)
        ELSE d1

\* The two loops run to their end (they end only for a positive spacing).
RECURSIVE VPass(_, _, _, _, _, _)
VPass(d, im, vx, w, h, g) ==
    IF LoopCond(vx, w) THEN VPass(VBody(d, im, vx, h, g), im, vx + g.v_spacing, w, h, g)
    ELSE d

RECURSIVE HPass(_, _, _, _, _, _)
HPass(d, im, hy, w, h, g) ==
    IF LoopCond(hy, h) THEN HPass(HBody(d, im, hy, w, g), im, hy + g.h_spacing, w, h, g)
    ELSE d

\* add_gridlines as a function: the heap after the call, the draw calls made
\* and the reference returned.
AddGridlines(h, im, g) ==
    LET cp == ImageCopy(h, im)
        w  == h[im].size[1]
        ht == h[im].size[2]
        d1 == VPass([heap |-> cp.heap, ops |-> <<>>], cp.ref, 0, w, ht, g)
        d2 == HPass(d1, cp.ref, 0, w, ht, g)
    IN  [heap |-> d2.heap, ops |-> d2.ops, ret |-> cp.ref]

---------------------------------------------------------------------------
(* Python floats (IEEE-754 doubles), as exact sign-and-magnitude numbers   *)
(* in units of Base^-FracLimbs, rounded to MantissaBits significant bits   *)
(* after every operation (round to nearest, ties to even).                 *)

MantissaBits == 53
LimbBits == 15
FracLimbs == 5
Base == 2 ^ LimbBits

\* Naturals as sequences of limbs, least significant first, no high zero limb.
RECURSIVE NatLimbs(_)
NatLimbs(n) == IF n = 0 THEN <<>> ELSE <<n % Base>> \o NatLimbs(n \div Base)

RECURSIVE Trim(_)
Trim(b) == IF Len(b) > 0 /\ b[Len(b)] = 0 THEN Trim(SubSeq(b, 1, Len(b) - 1)) ELSE b

Limb(b, i) == IF i <= Len(b) THEN b[i] ELSE 0

RECURSIVE AddFrom(_, _, _, _)
AddFrom(a, b, i, carry) ==
    IF i > Len(a) /\ i > Len(b) THEN NatLimbs(carry)
    ELSE LET s == Limb(a, i) + Limb(b, i) + carry
         IN  <<s % Base>> \o AddFrom(a, b, i + 1, s \div Base)

LimbsAdd(a, b) == AddFrom(a, b, 1, 0)

\* a - b for a >= b
RECURSIVE SubFrom(_, _, _, _)
SubFrom(a, b, i, borrow) ==
    IF i > Len(a) THEN <<>>
    ELSE LET s == Limb(a, i) - Limb(b, i) - borrow
         IN  <<s % Base>> \o SubFrom(a, b, i + 1, IF s < 0 THEN 1 ELSE 0)

LimbsSub(a, b) == Trim(SubFrom(a, b, 1, 0))

LimbsLess(a, b) ==
    IF Len(a) # Len(b) THEN Len(a) < Len(b)
    ELSE \E i \in 1 .. Len(a) :
            /\ a[i] < b[i]
            /\ \A j \in (i + 1) .. Len(a) : a[j] = b[j]

LimbsLeq(a, b) == a = b \/ LimbsLess(a, b)

\* a * n for 0 <= n <= Base
RECURSIVE MulFrom(_, _, _, _)
MulFrom(a, n, i, carry) ==
    IF i > Len(a) THEN NatLimbs(carry)
    ELSE LET s == a[i] * n + carry
         IN  <<s % Base>> \o MulFrom(a, n, i + 1, s \div Base)

LimbsMul(a, n) == Trim(MulFrom(a, n, 1, 0))

\* a divided by n, 0 < n <= Base: quotient and remainder
RECURSIVE DivFrom(_, _, _, _)
DivFrom(a, n, i, rem) ==
    IF i = 0 THEN [quot |-> <<>>, rem |-> rem]
    ELSE LET t == rem * Base + a[i]
             rest == DivFrom(a, n, i - 1, t % n)
         IN  [quot |-> Append(rest.quot, t \div n), rem |-> rest.rem]

LimbsDiv(a, n) ==
    LET r == DivFrom(a, n, Len(a), 0) IN [quot |-> Trim(r.quot), rem |-> r.rem]

\* a * 2^k, and a divided by 2^k with whether the division is exact
ShiftLeft(a, k) ==
    LET m == LimbsMul(a, 2 ^ (k % LimbBits))
    IN  IF m = <<>> THEN <<>> ELSE [i \in 1 .. (k \div LimbBits) |-> 0] \o m

ShiftRight(a, k) ==
    LET q == k \div LimbBits
        d == LimbsDiv(SubSeq(a, q + 1, Len(a)), 2 ^ (k % LimbBits))
    IN  [quot  |-> d.quot,
         exact |-> d.rem = 0 /\ \A i \in 1 .. Min(q, Len(a)) : a[i] = 0]

BitLength(a) ==
    IF a = <<>> THEN 0
    ELSE LimbBits * (Len(a) - 1)
         + (CHOOSE k \in 1 .. LimbBits : 2 ^ (k - 1) <= a[Len(a)] /\ a[Len(a)] < 2 ^ k)

\* Round to nearest, ties to even; `inexact` tells that the exact value lies
\* strictly above `a`.
RoundLimbs(a, inexact) ==
    IF BitLength(a) <= MantissaBits THEN a
    ELSE LET drop == BitLength(a) - MantissaBits
             s    == ShiftRight(a, drop - 1)
             half == s.quot[1] % 2 = 1
             kept == LimbsDiv(s.quot, 2).quot
             rest == inexact \/ ~s.exact
             up   == half /\ (rest \/ kept[1] % 2 = 1)
         IN  ShiftLeft(IF up THEN LimbsAdd(kept, <<1>>) ELSE kept, drop)

Float(neg, mag) == [neg |-> neg /\ mag # <<>>, mag |-> mag]

Unit == [i \in 1 .. FracLimbs |-> 0]

\* float(n) of an integer n >= 0
FromInt(n) == Float(FALSE, IF n = 0 THEN <<>> ELSE Unit \o NatLimbs(n))

\* a / n for integers a >= 0, n > 0 (true division)
IntDiv(a, n) ==
    LET d == LimbsDiv(Unit \o NatLimbs(a), n)
    IN  Float(FALSE, RoundLimbs(d.quot, d.rem # 0))

\* n * f for an integer 0 <= n <= Base
IntMul(n, f) == Float(f.neg, RoundLimbs(LimbsMul(f.mag, n), FALSE))

FLess(a, b) ==
    IF a.neg # b.neg THEN a.neg
    ELSE IF a.neg THEN LimbsLess(b.mag, a.mag) ELSE LimbsLess(a.mag, b.mag)

FLeq(a, b) == a = b \/ FLess(a, b)

FMax(a, b) == IF FLess(a, b) THEN b ELSE a

FMin(a, b) == IF FLess(b, a) THEN b ELSE a

\* a - b for non-negative a, b
FSub(a, b) ==
    IF LimbsLeq(b.mag, a.mag)
    THEN Float(FALSE, RoundLimbs(LimbsSub(a.mag, b.mag), FALSE))
    ELSE Float(TRUE, RoundLimbs(LimbsSub(b.mag, a.mag), FALSE))

\* a / 2
FHalf(a) == Float(a.neg, LimbsDiv(a.mag, 2).quot)

---------------------------------------------------------------------------
(* PDFGeneratorWithGrid.create_pdf_with_grid (src/app.py:228-267).         *)

\* reportlab.lib.pagesizes.letter, in points
LETTER_WIDTH == 612
LETTER_HEIGHT == 792

page_width == FromInt(LETTER_WIDTH)
page_height == FromInt(LETTER_HEIGHT)

\* `scale = min(page_width / img_width, page_height / img_height)`
PackScaleMax(img_width, img_height) ==
    FMax(IntDiv(LETTER_WIDTH, img_width), IntDiv(LETTER_HEIGHT, img_height))

PackScale(img_width, img_height) ==
    FMin(IntDiv(LETTER_WIDTH, img_width), IntDiv(LETTER_HEIGHT, img_height))

\* lines 248-261: the drawImage call made for an image
PackOntoPage(img) ==
    LET img_width == img.size[1]
        img_height == img.size[2]
        scale == PackScale(img_width, img_height)
        scaled_width == IntMul(img_width, scale)
        scaled_height == IntMul(img_height, scale)
        x_offset == FHalf(FSub(page_width, scaled_width))
        y_offset == FHalf(FSub(page_height, scaled_height))
    IN  [image |-> img, x |-> x_offset, y |-> y_offset,
         width |-> scaled_width, height |-> scaled_height]

NewCanvas == [pages |-> <<>>, page |-> <<>>]

\* c.showPage(): the current page ends
ShowPageKeeps(cv) == [cv EXCEPT !.page = <<>>]

ShowPage(cv) == [pages |-> Append(cv.pages, cv.page), page |-> <<>>]

DrawImage(cv, placed) == [cv EXCEPT !.page = Append(@, placed)]

NoPdfCall ==
    /\ images_with_grid = <<>>
    /\ c = NewCanvas
    /\ img_pos = 0
    /\ pdf_buffer = <<>>

\* lines 239-244
CreatePdfBegin ==
    /\ pc = "pdf_call"
    /\ c' = NewCanvas
    /\ img_pos' = 1
    /\ pdf_buffer' = <<>>
    /\ pc' = "pdf_loop"
    /\ UNCHANGED <<heap, callVars, images_with_grid, appVars>>

\* lines 246-263: one image
CreatePdfPage ==
    /\ pc = "pdf_loop"
    /\ img_pos <= Len(images_with_grid)
    /\ c' = ShowPage(DrawImage(c, PackOntoPage(heap[images_with_grid[img_pos]])))
    /\ img_pos' = img_pos + 1
    /\ UNCHANGED <<heap, pc, callVars, images_with_grid, pdf_buffer, appVars>>

\* lines 265-267: the loop is over; save and return the buffer
CreatePdfSave ==
    /\ pc = "pdf_loop"
    /\ img_pos > Len(images_with_grid)
    /\ pdf_buffer' = c.pages
    /\ pc' = "pdf_done"
    /\ UNCHANGED <<heap, callVars, images_with_grid, c, img_pos, appVars>>

---------------------------------------------------------------------------
(* The session (src/app.py:294-306): nothing uploaded yet.                 *)

NoSession ==
    /\ session_state = [pdf_images |-> <<>>, pdf_info |-> 0, pdf_filename |-> 0,
                        images_with_grid |-> <<>>, current_page |-> 0]
    /\ pdf_upload = 0
    /\ grid_settings = <<>>
    /\ generate_all = FALSE
    /\ idx = 0
    /\ progress = <<>>
    /\ run_error = "none"

---------------------------------------------------------------------------
(* Specification Spec: a generator is constructed and add_gridlines is     *)
(* called on a stored image, again and again with new configurations.      *)

Dims == 0 .. MaxDim
ImageSizes == (Dims \X Dims) \cup {<<BigW, BigH>>}
Spacings == ((-1) .. MaxSpacing) \cup {BigSpacing}
LineWidths == {1, 2}

Generators ==
    { GridlineGenerator(hs, vs, DEFAULT_GRID_COLOR, DEFAULT_LABEL_COLOR, lw, sl) :
        hs \in Spacings, vs \in Spacings, lw \in LineWidths, sl \in BOOLEAN }

Init ==
    /\ \E sz \in ImageSizes : heap = [r \in {1} |-> NewImage(sz[1], sz[2], 1)]
    /\ self \in Generators
    /\ pc = "ready"
    /\ image = 1
    /\ img_with_grid = 0
    /\ width = 0
    /\ height = 0
    /\ x = 0
    /\ y = 0
    /\ ops = <<>>
    /\ NoPdfCall
    /\ NoSession

\* lines 159-171: copy the image, make the draw object, read the size.
AddGridlinesBegin ==
    /\ pc = "ready"
    /\ LET cp == ImageCopy(heap, image)
       IN  /\ heap' = cp.heap
           /\ img_with_grid' = cp.ref
    /\ width' = heap[image].size[1]
    /\ height' = heap[image].size[2]
    /\ x' = 0
    /\ ops' = <<>>
    /\ pc' = "vloop"
    /\ UNCHANGED <<self, image, y, pdfVars, appVars>>

\* A loop that cannot end (spacing <= 0) is followed for MaxSpin iterations.
Followed(spacing) == spacing > 0 \/ Len(ops) < MaxSpin

\* lines 172-192
VLoopIter ==
    /\ pc = "vloop"
    /\ LoopCond(x, width)
    /\ Followed(self.v_spacing)
    /\ LET d == VBody([heap |-> heap, ops |-> ops], img_with_grid, x, height, self)
       IN  /\ heap' = d.heap
           /\ ops' = d.ops
    /\ x' = x + self.v_spacing
    /\ UNCHANGED <<self, pc, image, img_with_grid, width, height, y, pdfVars, appVars>>

\* line 172 false, line 195
VLoopExit ==
    /\ pc = "vloop"
    /\ ~LoopCond(x, width)
    /\ y' = 0
    /\ pc' = "hloop"
    /\ UNCHANGED <<heap, self, image, img_with_grid, width, height, x, ops, pdfVars, appVars>>

\* lines 196-216
HLoopIter ==
    /\ pc = "hloop"
    /\ LoopCond(y, height)
    /\ Followed(self.h_spacing)
    /\ LET d == HBody([heap |-> heap, ops |-> ops], img_with_grid, y, width, self)
       IN  /\ heap' = d.heap
           /\ ops' = d.ops
    /\ y' = y + self.h_spacing
    /\ UNCHANGED <<self, pc, image, img_with_grid, width, height, x, pdfVars, appVars>>

\* line 196 false, line 218: return img_with_grid
AddGridlinesReturn ==
    /\ pc = "hloop"
    /\ ~LoopCond(y, height)
    /\ pc' = "done"
    /\ UNCHANGED <<heap, self, image, img_with_grid, width, height, x, y, ops, pdfVars, appVars>>

\* Another generator is constructed for the same stored image; the previous
\* result is dropped.
Reconfigure ==
    /\ pc = "done"
    /\ self' \in Generators
    /\ heap' = [r \in {image} |-> heap[r]]
    /\ img_with_grid' = 0
    /\ width' = 0
    /\ height' = 0
    /\ x' = 0
    /\ y' = 0
    /\ ops' = <<>>
    /\ pc' = "ready"
    /\ UNCHANGED <<image, pdfVars, appVars>>

Next ==
    \/ AddGridlinesBegin
    \/ VLoopIter
    \/ VLoopExit
    \/ HLoopIter
    \/ AddGridlinesReturn
    \/ Reconfigure

Spec == Init /\ [][Next]_vars

---------------------------------------------------------------------------
(* Specification SpecPack: create_pdf_with_grid is called on a list of     *)
(* images.                                                                 *)

MaxPackDim == 5
MaxPackPages == 2

PackSizes == ((1 .. MaxPackDim) \X (1 .. MaxPackDim)) \cup {<<800, 600>>, <<1, 37>>}

NoGridCall ==
    /\ self = GridlineGenerator(DEFAULT_H_SPACING, DEFAULT_V_SPACING, DEFAULT_GRID_COLOR,
                                DEFAULT_LABEL_COLOR, DEFAULT_LINE_WIDTH, TRUE)
    /\ image = 0
    /\ img_with_grid = 0
    /\ width = 0
    /\ height = 0
    /\ x = 0
    /\ y = 0
    /\ ops = <<>>

InitPack ==
    /\ \E n \in 1 .. MaxPackPages : \E sizes \in [1 .. n -> PackSizes] :
          /\ heap = [r \in 1 .. n |-> NewImage(sizes[r][1], sizes[r][2], r)]
          /\ images_with_grid = [r \in 1 .. n |-> r]
    /\ pc = "pdf_call"
    /\ c = NewCanvas
    /\ img_pos = 0
    /\ pdf_buffer = <<>>
    /\ NoGridCall
    /\ NoSession

NextPack ==
    \/ CreatePdfBegin
    \/ CreatePdfPage
    \/ CreatePdfSave

SpecPack == InitPack /\ [][NextPack]_vars

---------------------------------------------------------------------------
(* Specification SpecApp: the Streamlit session.  Every user event reruns  *)
(* main(); generate_pdf and create_pdf_with_grid are stepped one image at  *)
(* a time.                                                                 *)

MaxPages == 2
PagePixelsW == 11
PagePixelsH == 12

\* The PDFs a user may upload: document n has n pages.
Docs == 1 .. MaxPages

\* PDFProcessor.pdf_to_images (lines 68-88): one image per page, in order.
PdfToImages(doc) == [k \in 1 .. doc |-> NewImage(PagePixelsW + k, PagePixelsH, doc + k)]

\* The widgets of render_grid_settings (lines 369-409): spacing from 10 in
\* steps of 10, line width 1..5, opacity 50..255.
WidgetInputs == {10, 20} \X {10} \X {1} \X BOOLEAN \X {200, 80}

\* lines 411-422
RenderGridSettings(in) ==
    LET grid_opacity == in[5]
        label_gray == Max(0, grid_opacity - 100)
    IN  [h_spacing |-> in[1], v_spacing |-> in[2],
         grid_color |-> <<grid_opacity, grid_opacity, grid_opacity>>,
         label_color |-> <<label_gray, label_gray, label_gray>>,
         line_width |-> in[3], show_labels |-> in[4]]

\* lines 456-463 and 512-519
GeneratorOf(gs) ==
    GridlineGenerator(gs.h_spacing, gs.v_spacing, gs.grid_color, gs.label_color,
                      gs.line_width, gs.show_labels)

\* Image objects no longer referenced are dropped.
Collect(h, live) == [r \in (DOMAIN h) \cap live |-> h[r]]

SeqRefs(refs) == { refs[k] : k \in 1 .. Len(refs) }

\* New image objects for a list of image values: the heap and the references.
Allocate(h, imgs) ==
    LET free == (1 .. (Cardinality(DOMAIN h) + Len(imgs))) \ DOMAIN h
        nth(k) == CHOOSE r \in free : Cardinality({f \in free : f <= r}) = k
        refs == [k \in 1 .. Len(imgs) |-> nth(k)]
    IN  [heap |-> [r \in (DOMAIN h) \cup SeqRefs(refs) |->
                      IF r \in DOMAIN h THEN h[r]
                      ELSE imgs[CHOOSE k \in 1 .. Len(imgs) : refs[k] = r]],
         refs |-> refs]

\* render_upload_section (lines 335-350): a held file is converted again.
RenderUploadSection(h, ss, file) ==
    IF file = 0 THEN [heap |-> h, ss |-> ss]
    ELSE LET a == Allocate(Collect(h, SeqRefs(ss.images_with_grid)), PdfToImages(file))
         IN  [heap |-> a.heap,
              ss   |-> [ss EXCEPT !.pdf_filename = file, !.pdf_images = a.refs,
                                  !.pdf_info = file]]

\* st.number_input (lines 438-444): the widget refuses a `value` above
\* max_value; else it returns the user's entry, or `value` if there is none.
PageSelectorAccepts(value, n) == value <= n - 1

\* main() up to render_generation_section (lines 606-621), after a user event
\* that left `file` in the uploader and `sel` in the page selector (-1: not
\* touched), with the settings widgets at `gs`.
ScriptRun(h, ss, file, sel, gs) ==
    LET up == RenderUploadSection(h, ss, file)
        images == up.ss.pdf_images
    IN  IF images = <<>>
        THEN [heap |-> up.heap, ss |-> up.ss, error |-> "none", shown |-> FALSE]
        ELSE IF ~PageSelectorAccepts(up.ss.current_page, Len(images))
        THEN [heap |-> up.heap, ss |-> up.ss, error |-> "StreamlitAPIException",
              shown |-> FALSE]
        ELSE LET current_page == IF sel >= 0 THEN sel ELSE up.ss.current_page
                 ss2 == [up.ss EXCEPT !.current_page = current_page]
                 preview == AddGridlines(up.heap, images[current_page + 1], GeneratorOf(gs))
             IN  [heap  |-> Collect(preview.heap, SeqRefs(ss2.pdf_images)
                                                  \cup SeqRefs(ss2.images_with_grid)),
                  ss    |-> ss2, error |-> "none", shown |-> TRUE]

InitApp ==
    /\ heap = [r \in {} |-> NewImage(0, 0, 0)]
    /\ pc = "idle"
    /\ NoGridCall
    /\ NoPdfCall
    /\ NoSession

\* The preview and the generate button are on the page.
PreviewShown == session_state.pdf_images # <<>> /\ run_error = "none"

Rerun(file, sel, gs) ==
    LET r == ScriptRun(heap, session_state, file, sel, gs)
    IN  /\ heap' = r.heap
        /\ session_state' = r.ss
        /\ run_error' = r.error
        /\ pdf_upload' = file
        /\ UNCHANGED <<pc, callVars, pdfVars, grid_settings, generate_all, idx, progress>>

\* The user picks a file in the uploader.
Upload ==
    /\ pc = "idle"
    /\ \E doc \in Docs, in \in WidgetInputs : Rerun(doc, -1, RenderGridSettings(in))

\* The user clears the uploader.
RemoveUpload ==
    /\ pc = "idle"
    /\ pdf_upload # 0
    /\ \E in \in WidgetInputs : Rerun(0, -1, RenderGridSettings(in))

\* The user enters a page number the selector allows.
SelectPage ==
    /\ pc = "idle"
    /\ PreviewShown
    /\ \E p \in 0 .. Len(session_state.pdf_images) - 1, in \in WidgetInputs :
          Rerun(pdf_upload, p, RenderGridSettings(in))

\* The user moves a settings widget or presses Refresh Preview.
Interact ==
    /\ pc = "idle"
    /\ \E in \in WidgetInputs : Rerun(pdf_upload, -1, RenderGridSettings(in))

\* The user presses Generate PDF: main() runs up to the button and
\* generate_pdf starts (lines 508-524, 533).
ClickGenerate ==
    /\ pc = "idle"
    /\ PreviewShown
    /\ \E in \in WidgetInputs, all \in BOOLEAN :
          LET gs == RenderGridSettings(in)
              r == ScriptRun(heap, session_state, pdf_upload, -1, gs)
          IN  /\ heap' = r.heap
              /\ session_state' = r.ss
              /\ run_error' = r.error
              /\ IF r.shown
                 THEN /\ grid_settings' = gs
                      /\ self' = GeneratorOf(gs)
                      /\ generate_all' = all
                      /\ progress' = IF all THEN <<FromInt(0)>> ELSE <<>>
                      /\ pc' = IF all THEN "gen_loop" ELSE "gen_single"
                 ELSE UNCHANGED <<grid_settings, self, generate_all, progress, pc>>
    /\ images_with_grid' = <<>>
    /\ idx' = 0
    /\ UNCHANGED <<image, img_with_grid, width, height, x, y, ops,
                   c, img_pos, pdf_buffer, pdf_upload>>

\* `images_with_grid.append(img_with_grid)`
AppendImagePrepends(list, ref) == <<ref>> \o list

AppendImage(list, ref) == Append(list, ref)

\* `progress.progress((idx + 1) / len(images))`
ProgressValue(i, n) == IntDiv(i + 1, n)

\* lines 526-529: one image of the generate-all loop
GenerateIter ==
    /\ pc = "gen_loop"
    /\ idx < Len(session_state.pdf_images)
    /\ LET images == session_state.pdf_images
           r == AddGridlines(heap, images[idx + 1], self)
       IN  /\ heap' = r.heap
           /\ images_with_grid' = AppendImage(images_with_grid, r.ret)
           /\ progress' = Append(progress, ProgressValue(idx, Len(images)))
    /\ idx' = idx + 1
    /\ UNCHANGED <<pc, callVars, c, img_pos, pdf_buffer, session_state, pdf_upload,
                   grid_settings, generate_all, run_error>>

\* line 531, then the call of line 538
GenerateAllDone ==
    /\ pc = "gen_loop"
    /\ idx >= Len(session_state.pdf_images)
    /\ session_state' = [session_state EXCEPT !.images_with_grid = images_with_grid]
    /\ heap' = Collect(heap, SeqRefs(session_state.pdf_images) \cup SeqRefs(images_with_grid))
    /\ pc' = "pdf_call"
    /\ UNCHANGED <<callVars, pdfVars, pdf_upload, grid_settings, generate_all, idx,
                   progress, run_error>>

\* lines 533-535, then the call of line 538
GenerateSingle ==
    /\ pc = "gen_single"
    /\ LET images == session_state.pdf_images
           current_page == session_state.current_page
       IN  IF current_page < Len(images)
           THEN LET r == AddGridlines(heap, images[current_page + 1], self)
                IN  /\ heap' = r.heap
                    /\ images_with_grid' = <<r.ret>>
                    /\ pc' = "pdf_call"
                    /\ UNCHANGED run_error
           ELSE /\ run_error' = "IndexError"
                /\ pc' = "idle"
                /\ UNCHANGED <<heap, images_with_grid>>
    /\ UNCHANGED <<callVars, c, img_pos, pdf_buffer, session_state, pdf_upload,
                   grid_settings, generate_all, idx, progress>>

\* lines 540-559: the download is offered and the script run ends.
GenerateFinish ==
    /\ pc = "pdf_done"
    /\ pc' = "idle"
    /\ heap' = Collect(heap, SeqRefs(session_state.pdf_images)
                             \cup SeqRefs(session_state.images_with_grid))
    /\ self' = GridlineGenerator(DEFAULT_H_SPACING, DEFAULT_V_SPACING, DEFAULT_GRID_COLOR,
                                 DEFAULT_LABEL_COLOR, DEFAULT_LINE_WIDTH, TRUE)
    /\ images_with_grid' = <<>>
    /\ c' = NewCanvas
    /\ img_pos' = 0
    /\ pdf_buffer' = <<>>
    /\ grid_settings' = <<>>
    /\ generate_all' = FALSE
    /\ idx' = 0
    /\ progress' = <<>>
    /\ UNCHANGED <<image, img_with_grid, width, height, x, y, ops,
                   session_state, pdf_upload, run_error>>

NextApp ==
    \/ Upload
    \/ RemoveUpload
    \/ SelectPage
    \/ Interact
    \/ ClickGenerate
    \/ GenerateIter
    \/ GenerateAllDone
    \/ GenerateSingle
    \/ CreatePdfBegin
    \/ CreatePdfPage
    \/ CreatePdfSave
    \/ GenerateFinish

SpecApp == InitApp /\ [][NextApp]_vars



---------------------------------------------------------------------------
(* The loop's offsets alone (lines 171-172, 192 and 195-196, 216).          *)

RECURSIVE LineOffsets(_, _, _)
LineOffsets(off, dim, spacing) ==
    IF LoopCond(off, dim) THEN <<off>> \o LineOffsets(off + spacing, dim, spacing)
    ELSE <<>>

---------------------------------------------------------------------------
(* What was drawn, read off the draw calls.                                *)

IsLine(o) == o.op = "line"
IsText(o) == o.op = "text"
IsVLine(o) == IsLine(o) /\ o.xy[1][1] = o.xy[2][1]
IsHLine(o) == IsLine(o) /\ o.xy[1][2] = o.xy[2][2]

LineOps(s) == SelectSeq(s, IsLine)
TextOps(s) == SelectSeq(s, IsText)

\* The x-offsets of the vertical lines and the y-offsets of the horizontal
\* lines drawn, in drawing order.
VOffsetsOf(s) == LET l == SelectSeq(s, IsVLine) IN [k \in 1 .. Len(l) |-> l[k].xy[1][1]]
HOffsetsOf(s) == LET l == SelectSeq(s, IsHLine) IN [k \in 1 .. Len(l) |-> l[k].xy[1][2]]

VOffsets == VOffsetsOf(ops)
HOffsets == HOffsetsOf(ops)

Range(s) == { s[k] : k \in 1 .. Len(s) }
Increasing(s) == \A k \in 1 .. Len(s) - 1 : s[k] < s[k + 1]
MultiplesUpTo(spacing, dim) == { m \in 0 .. dim : m % spacing = 0 }

PositiveSpacing == self.h_spacing > 0 /\ self.v_spacing > 0
PositiveSize == heap[image].size[1] > 0 /\ heap[image].size[2] > 0
ValidCall == PositiveSpacing /\ PositiveSize
Returned == pc = "done"

\* Value of a decimal string; a canonical one has no leading zero.
DigitVal(ch) == CHOOSE dv \in 0 .. 9 : DigitChars[dv + 1] = ch

RECURSIVE DecValue(_)
DecValue(t) == IF Len(t) = 0 THEN 0
               ELSE 10 * DecValue(SubSeq(t, 1, Len(t) - 1)) + DigitVal(t[Len(t)])

IsDecimal(t) ==
    /\ Len(t) >= 1
    /\ \A k \in 1 .. Len(t) : t[k] \in Range(DigitChars)
    /\ Len(t) > 1 => t[1] # "0"

---------------------------------------------------------------------------
(* C1: for positive image size and positive spacings, the x-offsets of the *)
(* vertical lines drawn by add_gridlines are exactly the multiples of      *)
(* v_spacing in [0, width], in increasing order from 0, floor(W/v)+1 of    *)
(* them, and the y-offsets of the horizontal lines are exactly the         *)
(* multiples of h_spacing in [0, height]; 800x600 with spacing 50 gives 17 *)
(* and 13 offsets.                                                         *)

ExactMultiples(offs, spacing, dim) ==
    /\ Range(offs) = MultiplesUpTo(spacing, dim)
    /\ Increasing(offs)
    /\ Len(offs) = (dim \div spacing) + 1
    /\ offs[1] = 0

C1_OffsetsAreMultiples ==
    /\ (Returned /\ ValidCall) =>
          /\ ExactMultiples(VOffsets, self.v_spacing, width)
          /\ ExactMultiples(HOffsets, self.h_spacing, height)
          /\ VOffsets = LineOffsets(0, width, self.v_spacing)
          /\ HOffsets = LineOffsets(0, height, self.h_spacing)
    /\ LineOffsets(0, 800, 50) = [k \in 1 .. 17 |-> 50 * (k - 1)]
    /\ LineOffsets(0, 600, 50) = [k \in 1 .. 13 |-> 50 * (k - 1)]

C1_Witness ==
    /\ Returned /\ ValidCall
    /\ self.v_spacing > 1 /\ width % self.v_spacing = 0
    /\ Len(VOffsets) >= 3 /\ VOffsets[Len(VOffsets)] = width
    /\ height % self.h_spacing # 0 /\ Len(HOffsets) >= 2

---------------------------------------------------------------------------
(* C3: with show_labels, no label is drawn for offset 0, and every line at *)
(* a non-zero offset is followed by exactly two labels (top and bottom of  *)
(* a vertical line, left and right of a horizontal line) whose text is the *)
(* decimal string of the offset.                                           *)

LabelsOfLine(s, i) ==
    LET o == s[i]
        off == IF IsVLine(o) THEN o.xy[1][1] ELSE o.xy[1][2]
        lineNext(k) == k > Len(s) \/ IsLine(s[k])
        labelled(k) == /\ k <= Len(s) /\ IsText(s[k])
                       /\ IsDecimal(s[k].text) /\ DecValue(s[k].text) = off
                       /\ s[k].fill = self.label_color
    IN  IF off = 0 THEN lineNext(i + 1)
        ELSE /\ labelled(i + 1) /\ labelled(i + 2) /\ lineNext(i + 3)
             /\ IF IsVLine(o)
                THEN /\ s[i + 1].xy[1] = <<off + LABEL_OFFSET, LABEL_OFFSET>>
                     /\ s[i + 2].xy[1] = <<off + LABEL_OFFSET, height - BOTTOM_LABEL_MARGIN>>
                ELSE /\ s[i + 1].xy[1] = <<LABEL_OFFSET, off + LABEL_OFFSET>>
                     /\ s[i + 2].xy[1] = <<width - RIGHT_LABEL_MARGIN, off + LABEL_OFFSET>>

C3_LabelsExactlyNonZeroOffsets ==
    (Returned /\ ValidCall /\ self.show_labels) =>
        /\ IsLine(ops[1])
        /\ \A i \in 1 .. Len(ops) : IsLine(ops[i]) => LabelsOfLine(ops, i)
        /\ Len(TextOps(ops)) =
              2 * (Cardinality(Range(VOffsets) \ {0}) + Cardinality(Range(HOffsets) \ {0}))

C3_Witness ==
    /\ Returned /\ ValidCall /\ self.show_labels
    /\ \E i \in 1 .. Len(ops) : IsText(ops[i]) /\ Len(ops[i].text) = 2
    /\ Len(VOffsets) >= 2 /\ Len(HOffsets) >= 2

---------------------------------------------------------------------------
(* C4: with show_labels = False add_gridlines draws no label, and draws    *)
(* the same lines in the same order as with show_labels = True and the     *)
(* configuration otherwise the same.                                       *)

C4_LabelsOffSameLines ==
    (Returned /\ ValidCall /\ ~self.show_labels) =>
        LET on == AddGridlines(heap, image, [self EXCEPT !.show_labels = TRUE])
        IN  /\ TextOps(ops) = <<>>
            /\ LineOps(ops) = LineOps(on.ops)
            /\ VOffsets = VOffsetsOf(on.ops)
            /\ HOffsets = HOffsetsOf(on.ops)

C4_Witness ==
    /\ Returned /\ ValidCall /\ ~self.show_labels
    /\ Len(VOffsets) >= 2 /\ Len(HOffsets) >= 2
    /\ TextOps(AddGridlines(heap, image, [self EXCEPT !.show_labels = TRUE]).ops) # <<>>

---------------------------------------------------------------------------
(* C5: an invalid configuration (a spacing <= 0, or a non-positive page    *)
(* dimension) is rejected before any line or label is drawn: add_gridlines *)
(* performs no draw operation and does not return an image.                *)

InvalidConfiguration == ~ValidCall

C5_InvalidRejectedBeforeDrawing ==
    InvalidConfiguration => (ops = <<>> /\ pc # "done")

---------------------------------------------------------------------------
(* C7: the largest offset drawn on an axis of dimension D with spacing s   *)
(* is the smallest multiple of s that is >= D - s, and never exceeds D.    *)
(* Amended: it is the smallest multiple of s that is > D - s.              *)

Multiples(spacing, dim) == { k * spacing : k \in 0 .. dim }
Least(S) == CHOOSE m \in S : \A n \in S : m <= n
Last(s) == s[Len(s)]

C7_LargestIsSmallestMultipleAtLeast ==
    (Returned /\ ValidCall) =>
        /\ Last(VOffsets) = Least({m \in Multiples(self.v_spacing, width) : m >= width - self.v_spacing})
        /\ Last(HOffsets) = Least({m \in Multiples(self.h_spacing, height) : m >= height - self.h_spacing})
        /\ Last(VOffsets) <= width /\ Last(HOffsets) <= height

C7_LargestIsSmallestMultipleAbove ==
    (Returned /\ ValidCall) =>
        /\ Last(VOffsets) = Least({m \in Multiples(self.v_spacing, width) : m > width - self.v_spacing})
        /\ Last(HOffsets) = Least({m \in Multiples(self.h_spacing, height) : m > height - self.h_spacing})
        /\ Last(VOffsets) <= width /\ Last(HOffsets) <= height

C7_Witness ==
    /\ Returned /\ ValidCall
    /\ width % self.v_spacing = 0 /\ Last(VOffsets) = width
    /\ height % self.h_spacing # 0 /\ Last(HOffsets) < height /\ Last(HOffsets) > 0

---------------------------------------------------------------------------
(* C2: add_gridlines never mutates its input image: at every step the      *)
(* stored image has the pixels and size it had before the step, the        *)
(* drawing goes to a separate image object of the same size, and so every  *)
(* later call on the stored image starts from the original pixels.         *)

InputKept ==
    /\ image' = image
    /\ image \in DOMAIN heap'
    /\ SamePixels(heap[image], heap'[image])

Drawing == pc \in {"vloop", "hloop", "done"}

ResultSeparate ==
    Drawing => /\ img_with_grid # image
               /\ img_with_grid \in DOMAIN heap
               /\ heap[img_with_grid].size = heap[image].size

C2_InputNeverMutated == [][InputKept]_vars /\ []ResultSeparate

C2_Witness ==
    /\ Returned /\ ValidCall
    /\ heap[image].drawn = NoPixels
    /\ \E p \in Coords(heap[image]) :
          Pixel(heap[img_with_grid], p[1], p[2]) # Pixel(heap[image], p[1], p[2])

---------------------------------------------------------------------------
(* C8: drawing the vertical pass (lines and labels) before the horizontal  *)
(* pass gives pixel for pixel the same image as drawing the horizontal     *)
(* pass first.  Amended: this holds when show_labels is off.               *)

\* add_gridlines with its two loops in the other order.
AddGridlinesHFirst(h, im, g) ==
    LET cp == ImageCopy(h, im)
        w  == h[im].size[1]
        ht == h[im].size[2]
        d1 == HPass([heap |-> cp.heap, ops |-> <<>>], cp.ref, 0, w, ht, g)
        d2 == VPass(d1, cp.ref, 0, w, ht, g)
    IN  [heap |-> d2.heap, ops |-> d2.ops, ret |-> cp.ref]

SameAsHFirst ==
    LET other == AddGridlinesHFirst(heap, image, self)
    IN  SamePixels(heap[img_with_grid], other.heap[other.ret])

C8_PassOrderIrrelevant == (Returned /\ ValidCall) => SameAsHFirst

C8_PassOrderIrrelevantWithoutLabels ==
    (Returned /\ ValidCall /\ ~self.show_labels) => SameAsHFirst

\* Lines of both passes cross inside the image and differ from the page.
C8_Witness ==
    /\ Returned /\ ValidCall /\ ~self.show_labels
    /\ self.label_color # self.grid_color
    /\ \E vx \in Range(VOffsets), hy \in Range(HOffsets) :
          /\ vx > 0 /\ hy > 0 /\ <<vx, hy>> \in Coords(heap[image])
          /\ Pixel(heap[img_with_grid], vx, hy) = self.grid_color
          /\ Pixel(heap[image], vx, hy) # self.grid_color

---------------------------------------------------------------------------
(* C9: every pixel of the image add_gridlines draws on that is not covered *)
(* by a drawn gridline (a line of the configured width at a drawn offset)  *)
(* or by a drawn label has the value it has in the input image.            *)

Abs(n) == IF n < 0 THEN -n ELSE n

NearOffset(k, offs) == \E off \in Range(offs) : 2 * Abs(k - off) <= self.line_width

LabelPixels == UNION { TextArea(ops[k].xy[1], ops[k].text) : k \in { i \in 1 .. Len(ops) : IsText(ops[i]) } }

Uncovered ==
    LET cols == { k \in 0 .. width - 1 : ~NearOffset(k, VOffsets) }
        rows == { r \in 0 .. height - 1 : ~NearOffset(r, HOffsets) }
    IN  (cols \X rows) \ LabelPixels

C9_OnlyGridPixelsChange ==
    (Drawing /\ ValidCall) =>
        \A p \in Uncovered :
            Pixel(heap[img_with_grid], p[1], p[2]) = Pixel(heap[image], p[1], p[2])

C9_Witness ==
    /\ Returned /\ ValidCall /\ self.show_labels /\ self.line_width > 1
    /\ Uncovered # {}
    /\ LabelPixels \cap Coords(heap[image]) # {}
    /\ \E p \in Coords(heap[image]) \ Uncovered :
          Pixel(heap[img_with_grid], p[1], p[2]) # Pixel(heap[image], p[1], p[2])

---------------------------------------------------------------------------
(* C6: page packing preserves the aspect ratio and centres the image:      *)
(* scaledW * imgH = scaledH * imgW, scaledW <= outW and scaledH <= outH    *)
(* with equality on an axis, both offsets >= 0, zero on the filled axis,   *)
(* with equal margins on the other; 800x600 gives 612x459 at (0, 166.5).   *)
(* Amended: in double arithmetic these hold up to rounding only: the       *)
(* scaled sizes are within relative error 2^-51 of the exact ones, and     *)
(* each offset is half the difference to within relative error 2^-53.      *)

Placed == { c.pages[i][k] : i \in 1 .. Len(c.pages), k \in {1} }

Zero == FromInt(0)

ExactPacking(pl) ==
    LET imgW == pl.image.size[1]
        imgH == pl.image.size[2]
    IN  /\ LimbsMul(pl.width.mag, imgH) = LimbsMul(pl.height.mag, imgW)
        /\ FLeq(pl.width, page_width) /\ FLeq(pl.height, page_height)
        /\ pl.width = page_width \/ pl.height = page_height
        /\ FLeq(Zero, pl.x) /\ FLeq(Zero, pl.y)
        /\ pl.width = page_width => pl.x = Zero
        /\ pl.height = page_height => pl.y = Zero
        /\ LimbsAdd(LimbsMul(pl.x.mag, 2), pl.width.mag) = page_width.mag
        /\ LimbsAdd(LimbsMul(pl.y.mag, 2), pl.height.mag) = page_height.mag

C6_PackingExact == \A pl \in Placed : ExactPacking(pl)

AbsDiff(a, b) == IF LimbsLeq(b, a) THEN LimbsSub(a, b) ELSE LimbsSub(b, a)

\* |a - b| <= b * 2^-k
RelClose(a, b, k) == LimbsLeq(ShiftLeft(AbsDiff(a, b), k), b)

HalfDifference(off, out, scaled) ==
    /\ off.neg = FLess(out, scaled)
    /\ RelClose(LimbsMul(off.mag, 2), AbsDiff(out.mag, scaled.mag), 53)

RoundedPacking(pl) ==
    LET imgW == pl.image.size[1]
        imgH == pl.image.size[2]
    IN  /\ ~pl.width.neg /\ ~pl.height.neg
        /\ IF LETTER_WIDTH * imgH <= LETTER_HEIGHT * imgW
           THEN /\ RelClose(pl.width.mag, page_width.mag, 51)
                /\ RelClose(LimbsMul(pl.height.mag, imgW), LimbsMul(page_width.mag, imgH), 51)
           ELSE /\ RelClose(pl.height.mag, page_height.mag, 51)
                /\ RelClose(LimbsMul(pl.width.mag, imgH), LimbsMul(page_height.mag, imgW), 51)
        /\ HalfDifference(pl.x, page_width, pl.width)
        /\ HalfDifference(pl.y, page_height, pl.height)
        /\ pl.image.size = <<800, 600>> =>
              /\ pl.width = FromInt(612) /\ pl.height = FromInt(459)
              /\ pl.x = Zero /\ pl.y = FHalf(FromInt(333))

C6_PackingUpToRounding == \A pl \in Placed : RoundedPacking(pl)

\* A saved PDF with the 800x600 example and a page one rounding unit too high.
C6_Witness ==
    /\ pc = "pdf_done"
    /\ \E pl \in Placed : pl.image.size = <<800, 600>>
    /\ \E pl \in Placed : FLess(page_height, pl.height) /\ pl.y.neg

---------------------------------------------------------------------------
(* C10: generate_pdf followed by create_pdf_with_grid.                     *)

\* The input pages a generation covers: all of them, or the current one.
Selected ==
    IF generate_all THEN session_state.pdf_images
    ELSE <<session_state.pdf_images[session_state.current_page + 1]>>

\* The image add_gridlines makes of an input page under the run's settings.
GridOf(ref) ==
    LET r == AddGridlines(heap, ref, GeneratorOf(grid_settings)) IN r.heap[r.ret]

InPdf == pc \in {"pdf_call", "pdf_loop", "pdf_done"}

\* progress[k + 1] is what was reported after k of n pages: k / n.
ProgressReports(n) ==
    /\ progress[1] = Zero
    /\ \A k \in 1 .. Len(progress) - 1 :
          /\ FLeq(progress[k], progress[k + 1])
          /\ ~progress[k + 1].neg
          /\ RelClose(LimbsMul(progress[k + 1].mag, n), FromInt(k).mag, 53)
          /\ progress[k + 1] = FromInt(1) <=> k = n

\* C10: with generate_all set, the progress reported after page i (from 0)
\* of n is (i+1)/n, non-decreasing, and exactly 1 after the last page; the
\* gridded images are those of the input pages in input order, or of the one
\* current page when generate_all is unset; and the saved PDF has one page
\* per gridded image, in order, each page holding the one packed image.
C10_OnePagePerImageInOrder ==
    /\ pc = "gen_loop" =>
          /\ Len(progress) = idx + 1
          /\ idx <= Len(session_state.pdf_images)
          /\ ProgressReports(Len(session_state.pdf_images))
          /\ Len(images_with_grid) = idx
          /\ \A i \in 1 .. idx :
                SamePixels(heap[images_with_grid[i]], GridOf(session_state.pdf_images[i]))
    /\ InPdf =>
          /\ generate_all =>
                /\ Len(progress) = Len(session_state.pdf_images) + 1
                /\ ProgressReports(Len(session_state.pdf_images))
                /\ progress[Len(progress)] = FromInt(1)
                /\ session_state.images_with_grid = images_with_grid
          /\ ~generate_all => Len(images_with_grid) = 1 /\ progress = <<>>
          /\ Len(images_with_grid) = Len(Selected)
          /\ \A i \in 1 .. Len(Selected) :
                SamePixels(heap[images_with_grid[i]], GridOf(Selected[i]))
    /\ pc = "pdf_loop" =>
          /\ Len(c.pages) = img_pos - 1
          /\ c.page = <<>>
    /\ pc = "pdf_done" =>
          /\ Len(pdf_buffer) = Len(Selected)
          /\ \A i \in 1 .. Len(pdf_buffer) :
                pdf_buffer[i] = <<PackOntoPage(GridOf(Selected[i]))>>

\* A whole document of at least two different pages was generated with
\* labels, after the user had moved to a later page.
C10_Witness ==
    /\ pc = "pdf_done"
    /\ generate_all
    /\ grid_settings.show_labels
    /\ session_state.current_page > 0
    /\ Len(pdf_buffer) >= 2
    /\ pdf_buffer[1] # pdf_buffer[2]
    /\ Len(progress) = Len(pdf_buffer) + 1

---------------------------------------------------------------------------
(* C11: the page index kept in the session.                                *)

\* C11: whenever pdf_images is set, session_state.current_page is a valid
\* index into it, 0 <= current_page <= len(pdf_images) - 1, and neither the
\* preview nor single-page generation has indexed pdf_images out of range.
C11_CurrentPageValid ==
    /\ session_state.pdf_images # <<>> =>
          /\ 0 <= session_state.current_page
          /\ session_state.current_page <= Len(session_state.pdf_images) - 1
    /\ run_error # "IndexError"

=============================================================================
